---- MODULE Spec2Model ----
(***************************************************************************)
(* MappingLocalEnv (gym_flock/envs/mapping_local.py): point agents with    *)
(* position/velocity state observe a grid of stationary targets.           *)
(*                                                                         *)
(* Numbers are integers: positions, velocities and squared distances are   *)
(* exact.  The configuration read by params_from_cfg is chosen so that the *)
(* integration step (dt = 1, action_scalar = 2) and the target grid        *)
(* (n_agents in 1..3) stay on the integer lattice.                         *)
(***************************************************************************)
EXTENDS Integers, Sequences, FiniteSets, TLC

VARIABLES
    n_agents,                 \* self.n_agents
    nearest_agents,           \* self.nearest_agents
    nearest_targets,          \* self.nearest_targets
    np_random,                \* self.np_random: state of the environment's own generator
    global_rng,               \* state of the process-wide numpy generator (np.random)
    x,                        \* self.x: [agent -> <<px, py, vx, vy>>], NoValue before reset
    target_unobserved,        \* self.target_unobserved: [target -> <<bool, bool>>]
    target_observed,          \* self.target_observed: one entry per gathered target
    adj_mat,                  \* self.adj_mat
    state_network,            \* self.state_network (adj_mat_mean, entries <<num, den>>)
    n_targets_obs_per_agent,  \* self.n_targets_obs_per_agent
    state_values,             \* self.state_values
    greedy_action,            \* self.greedy_action
    steps,                    \* step calls since the last reset
    returned                  \* the last call and what it returned or raised

vars == <<n_agents, nearest_agents, nearest_targets, np_random, global_rng, x,
          target_unobserved, target_observed, adj_mat, state_network,
          n_targets_obs_per_agent, state_values, greedy_action, steps, returned>>

----------------------------------------------------------------------------
(* Bounds of the model *)

MaxSteps == 2          \* step calls explored per episode
RngModulus == 8        \* number of states of a random generator

(* Configuration values handed to params_from_cfg *)
AgentCounts == {1, 2, 3}
NearestAgentsValues == {1, 3}
NearestTargetsValues == {1, 3}
obs_rad == 3
v_max == 1
dt == 1
action_scalar == 2
max_accel == 1
nx_system == 4

(* Raw command components offered to step (before clipping) *)
CommandPairs == {<<-2, 0>>, <<1, 1>>}
SeedValues == {0, 5}

(* Seeds the constructor's seed(None) may resolve to *)
EntropyValues == {11}

NoValue == << >>
Inf == 1000000

obs_rad2 == obs_rad * obs_rad

\* An array with every entry computed once (the same function as f).
Array(f) == f @@ << >>

Agents == 0 .. (n_agents - 1)
Targets == 0 .. (n_agents * n_agents - 1)


----------------------------------------------------------------------------
(* Random sources.  A generator is a state; every draw advances it.        *)

\* One step of the generator (a full-period linear congruential step).
RngNext(s) == (5 * s + 3) % RngModulus

\* seeding.np_random(seed): the generator state a seed value resolves to.
SeedState(seed) == seed % RngModulus

\* uniform(low, high, size): size draws low + (high - low) * u, u in [0, 1).
RECURSIVE Uniform(_, _, _, _)
Uniform(s, low, high, size) ==
    IF size = 0 THEN [vals |-> << >>, state |-> s]
    ELSE LET s1 == RngNext(s)
             v  == low + ((high - low) * s1) \div RngModulus
             r  == Uniform(s1, low, high, size - 1)
         IN  [vals |-> <<v>> \o r.vals, state |-> r.state]

----------------------------------------------------------------------------
(* Target grid *)

\* np.linspace(-n, n, n)[i]; exact on the integers for n in 1..3.
Linspace(n, i) == IF n = 1 THEN -n ELSE -n + (i * 2 * n) \div (n - 1)

\* self.target_x[t]: meshgrid(x, y) flattened row-major, stacked as (tx, ty).
target_x(t) == <<Linspace(n_agents, t % n_agents), Linspace(n_agents, t \div n_agents)>>

\* np.ones((n_agents * n_agents, 2), dtype=bool)
AllUnobserved == [t \in Targets |-> <<TRUE, TRUE>>]

----------------------------------------------------------------------------
(* Boolean-mask indexing of an (N, 2) array, in row-major order *)

FlatIndices == 0 .. (2 * n_agents * n_agents - 1)
MaskAt(mask, k) == mask[k \div 2][(k % 2) + 1]
TrueFlat(mask) == {k \in FlatIndices : MaskAt(mask, k)}
\* position of flat index k among the selected entries
RankIn(S, k) == Cardinality({j \in S : j < k})
\* the selected flat indices from k on, in flat order
RECURSIVE SelectedFrom(_, _)
SelectedFrom(mask, k) ==
    IF k > 2 * n_agents * n_agents - 1 THEN << >>
    ELSE (IF MaskAt(mask, k) THEN <<k>> ELSE << >>) \o SelectedFrom(mask, k + 1)

\* number of gathered targets: np.shape(self.r2_targets)[1]
GatheredCount(mask) == Cardinality(TrueFlat(mask)) \div 2
Gathered(mask) == 0 .. (GatheredCount(mask) - 1)

\* self.target_x[self.target_unobserved].reshape((-1, 2)): the selected
\* coordinates, in flat order, regrouped in pairs
GatheredTargets(mask) ==
    LET sel == SelectedFrom(mask, 0)
        coord(k) == target_x(k \div 2)[(k % 2) + 1]
    IN  Array([j \in Gathered(mask) |-> <<coord(sel[2 * j + 1]), coord(sel[2 * j + 2])>>])

\* Variant: the negated column tiled as (2, 1), so that the flattened values
\* run through the targets twice instead of repeating each target's value.
TiledAlongRows(observed, r) == ~observed[r % Cardinality(DOMAIN observed)]

\* np.tile(np.logical_not(target_observed), (1, 2)).flatten()[r]
TiledNotObserved(observed, r) == ~observed[r \div 2]

\* self.target_unobserved[self.target_unobserved] = vals
MaskedAssign(mask, observed) ==
    LET S == TrueFlat(mask)
        new(k) == IF k \in S THEN TiledNotObserved(observed, RankIn(S, k))
                  ELSE MaskAt(mask, k)
    IN  Array([t \in Targets |-> <<new(2 * t), new(2 * t + 1)>>])

----------------------------------------------------------------------------
(* Selection of the k smallest entries of each row *)

\* numpy fixes no order among equal entries.  The model takes the two extreme
\* answers: equal entries in ascending (1) or in descending (-1) index order.
TieOrders == {1, -1}

\* whether index a is placed before index b
Before(row, tie, a, b) == row[a] < row[b] \/ (row[a] = row[b] /\ tie * a < tie * b)

\* the position of every index of dom in the ordered row
Positions(row, dom, tie) ==
    Array([j \in dom |-> Cardinality({l \in dom : Before(row, tie, l, j)})])

\* np.argpartition(mat, range(k), axis=1)[:, :k]: per row (row i at position
\* i + 1) the indices of the k smallest entries, smallest first.
ArgPartition(mat, dom, k) ==
    {Array([p \in 1 .. n_agents |->
               LET pos == Positions(mat[p - 1], dom, tie)
               IN  Array([r \in 0 .. (k - 1) |-> CHOOSE j \in dom : pos[j] = r])]) :
        tie \in TieOrders}

\* Variant: a sort that puts the largest entry first.
ArgSortDescending(mat, dom) ==
    {Array([p \in 1 .. n_agents |->
               LET pos == Positions(mat[p - 1], dom, tie)
               IN  Array([r \in 0 .. (Cardinality(dom) - 1) |->
                             CHOOSE j \in dom : pos[j] = Cardinality(dom) - 1 - r])]) :
        tie \in TieOrders}

\* np.argsort(mat, axis=1): every index of each row, smallest entry first.
ArgSort(mat, dom) == ArgPartition(mat, dom, Cardinality(dom))

----------------------------------------------------------------------------
(* compute_helpers: neighbours *)

\* self.diff[i, j, :]
Diff(xs, i, j) == [c \in 1 .. nx_system |-> xs[i][c] - xs[j][c]]

\* self.r2 after np.fill_diagonal(self.r2, np.Inf)
R2(xs) ==
    Array([i \in Agents |-> Array([j \in Agents |->
        IF i = j THEN Inf
        ELSE (xs[i][1] - xs[j][1]) * (xs[i][1] - xs[j][1])
               + (xs[i][2] - xs[j][2]) * (xs[i][2] - xs[j][2])])])

\* the admissible values of `nearest` (one row per agent, agent i at position i + 1)
NearestChoices(xs) == ArgPartition(R2(xs), Agents, nearest_agents)

RECURSIVE Concat(_, _, _)
\* f[from] \o f[from + 1] \o ... \o f[to - 1]
Concat(f, from, to) == IF from >= to THEN << >> ELSE f[from] \o Concat(f, from + 1, to)

\* obs_neigh[i, :]: relative state to each selected neighbour, in rank order
ObsNeigh(xs, nearest, i) ==
    Concat([r \in 0 .. (nearest_agents - 1) |-> Diff(xs, i, nearest[i + 1][r])],
           0, nearest_agents)

\* self.adj_mat: columns nearest[:, r] set to 1 for every rank r, then a zero diagonal
AdjMat(nearest) ==
    Array([r \in Agents |-> Array([c \in Agents |->
        IF r = c THEN 0
        ELSE IF \E a \in Agents, k \in 0 .. (nearest_agents - 1) : nearest[a + 1][k] = c
             THEN 1 ELSE 0])])

RECURSIVE RowSum(_, _)
RowSum(row, n) == IF n = 0 THEN 0 ELSE row[n - 1] + RowSum(row, n - 1)

\* n_neighbors with zeros replaced by 1
NNeighbors(adj, r) == IF RowSum(adj[r], n_agents) = 0 THEN 1 ELSE RowSum(adj[r], n_agents)

\* self.adj_mat_mean: self.adj_mat / n_neighbors, kept as <<numerator, denominator>>
AdjMatMean(adj) ==
    Array([r \in Agents |-> Array([c \in Agents |-> <<adj[r][c], NNeighbors(adj, r)>>])])

----------------------------------------------------------------------------
(* compute_helpers: targets *)

\* self.diff_targets: agent position minus gathered target position
DiffTargets(xs, gathered) ==
    Array([i \in Agents |-> Array([j \in DOMAIN gathered |->
        <<xs[i][1] - gathered[j][1], xs[i][2] - gathered[j][2]>>])])

\* self.r2_targets
R2Targets(diff_targets) ==
    Array([i \in Agents |-> Array([j \in DOMAIN diff_targets[i] |->
        diff_targets[i][j][1] * diff_targets[i][j][1]
          + diff_targets[i][j][2] * diff_targets[i][j][2]])])

\* n_nearest_targets = min(self.nearest_targets, np.shape(self.r2_targets)[1])
NNearestTargets(count) == IF nearest_targets < count THEN nearest_targets ELSE count

\* the admissible values of the local nearest_targets (argsort or argpartition branch)
NearestTargetChoices(r2_targets, cols) ==
    IF Cardinality(cols) < nearest_targets
    THEN ArgSort(r2_targets, cols)
    ELSE ArgPartition(r2_targets, cols, nearest_targets)

\* obs_target[i, :]: zeros, the first n_nearest_targets pairs filled in
ObsTarget(diff_targets, ntargets, i) ==
    Concat([r \in 0 .. (nearest_targets - 1) |->
               IF r < NNearestTargets(Cardinality(DOMAIN diff_targets[i]))
               THEN diff_targets[i][ntargets[i + 1][r]]
               ELSE <<0, 0>>],
           0, nearest_targets)

\* self.target_observed = np.any(self.r2_targets < self.obs_rad2, axis=0)
TargetObserved(r2_targets, cols) ==
    Array([j \in cols |-> \E i \in Agents : r2_targets[i][j] < obs_rad2])

\* Variant: a target at distance exactly obs_rad is counted as well.
NTargetsObsPerAgentInclusive(r2_targets, cols) ==
    Array([i \in Agents |-> Cardinality({j \in cols : r2_targets[i][j] <= obs_rad2})])

\* self.n_targets_obs_per_agent = np.sum(self.r2_targets < self.obs_rad2, axis=1)
NTargetsObsPerAgent(r2_targets, cols) ==
    Array([i \in Agents |-> Cardinality({j \in cols : r2_targets[i][j] < obs_rad2})])

\* np.hstack((self.x[:, 2:4], obs_neigh, obs_target))
StateValues(xs, diff_targets, nearest, ntargets) ==
    Array([i \in Agents |->
        <<xs[i][3], xs[i][4]>> \o ObsNeigh(xs, nearest, i)
                               \o ObsTarget(diff_targets, ntargets, i)])

\* -1.0 * obs_target[:, 0:2]
GreedyAction(diff_targets, ntargets) ==
    Array([i \in Agents |-> <<-ObsTarget(diff_targets, ntargets, i)[1],
                              -ObsTarget(diff_targets, ntargets, i)[2]>>])

\* Variant: the pass works on all targets instead of the unobserved ones, so
\* the mask only reflects what is in range now.
UpdateMaskFromAllTargets(xs, mask) ==
    MaskedAssign(AllUnobserved,
                 TargetObserved(R2Targets(DiffTargets(xs, GatheredTargets(AllUnobserved))),
                                Gathered(AllUnobserved)))

\* the mask after one pass: gather, distances, any-agent test, masked write-back
UpdateMask(xs, mask) ==
    MaskedAssign(mask, TargetObserved(R2Targets(DiffTargets(xs, GatheredTargets(mask))),
                                      Gathered(mask)))

----------------------------------------------------------------------------
(* compute_helpers as a whole *)

\* np.argpartition raises ValueError when a kth index is out of bounds
ComputeHelpersRaises == nearest_agents > n_agents

\* every outcome of one compute_helpers pass on positions xs and mask
ComputeHelpers(xs, mask) ==
    LET cols         == Gathered(mask)
        diff_targets == DiffTargets(xs, GatheredTargets(mask))
        r2_targets   == R2Targets(diff_targets)
        observed     == TargetObserved(r2_targets, cols)
        new_mask     == UpdateMask(xs, mask)
        counts       == NTargetsObsPerAgent(r2_targets, cols)
    IN  {[adj_mat                 |-> AdjMat(nearest),
          state_network           |-> AdjMatMean(AdjMat(nearest)),
          target_observed         |-> observed,
          target_unobserved       |-> new_mask,
          n_targets_obs_per_agent |-> counts,
          state_values            |-> StateValues(xs, diff_targets, nearest, ntargets),
          greedy_action           |-> GreedyAction(diff_targets, ntargets)] :
            nearest \in NearestChoices(xs),
            ntargets \in NearestTargetChoices(r2_targets, cols)}

\* the assignments of one pass to the environment's fields
Assign(h) ==
    /\ adj_mat' = h.adj_mat
    /\ state_network' = h.state_network
    /\ target_observed' = h.target_observed
    /\ target_unobserved' = h.target_unobserved
    /\ n_targets_obs_per_agent' = h.n_targets_obs_per_agent
    /\ state_values' = h.state_values
    /\ greedy_action' = h.greedy_action

----------------------------------------------------------------------------
(* Operations *)

\* np.clip(v, lo, hi)
Clip(v, lo, hi) == IF v < lo THEN lo ELSE IF v > hi THEN hi ELSE v

\* Variant: the episode is declared finished while one target is left.
AtMostOneUnobserved(mask) == Cardinality(TrueFlat(mask)) <= 2

\* 0 == np.sum(self.target_unobserved)
NoneUnobserved(mask) == TrueFlat(mask) = {}

\* The four uniform draws of reset, taken in order from generator state s.
ResetDraw(s) ==
    LET d0 == Uniform(s, -n_agents, n_agents, n_agents)
        d1 == Uniform(d0.state, -n_agents, n_agents, n_agents)
        d2 == Uniform(d1.state, -v_max, v_max, n_agents)
        d3 == Uniform(d2.state, -v_max, v_max, n_agents)
    IN  [x |-> Array([i \in Agents |->
                  <<d0.vals[i + 1], d1.vals[i + 1], d2.vals[i + 1], d3.vals[i + 1]>>]),
         state |-> d3.state]

\* The kinematic update of step for one agent under the raw command c.
Integrate(xi, c) ==
    LET ux == Clip(c[1], -max_accel, max_accel) * action_scalar
        uy == Clip(c[2], -max_accel, max_accel) * action_scalar
    IN  <<xi[1] + xi[3] * dt + (ux * dt * dt) \div 2,
          xi[2] + xi[4] * dt + (uy * dt * dt) \div 2,
          Clip(xi[3] + ux * dt, -v_max, v_max),
          Clip(xi[4] + uy * dt, -v_max, v_max)>>

\* Squared displacement of an agent; dist_traveled is its square root.
Dist2(old, new) ==
    (new[1] - old[1]) * (new[1] - old[1]) + (new[2] - old[2]) * (new[2] - old[2])

\* Reward of one agent, n_targets_obs_per_agent - 0.1 * dist_traveled, kept as
\* the pair <<targets counted, squared distance travelled>>.
Reward(count, old, new) == <<count, Dist2(old, new)>>

\* __init__ followed by params_from_cfg(args)
Init ==
    /\ n_agents \in AgentCounts
    /\ nearest_agents \in NearestAgentsValues
    /\ nearest_targets \in NearestTargetsValues
    /\ np_random \in {SeedState(e) : e \in EntropyValues}
    /\ global_rng \in 0 .. (RngModulus - 1)
    /\ x = NoValue
    /\ target_unobserved = [t \in 0 .. (n_agents * n_agents - 1) |-> <<TRUE, TRUE>>]
    /\ target_observed = NoValue
    /\ adj_mat = NoValue
    /\ state_network = NoValue
    /\ n_targets_obs_per_agent = NoValue
    /\ state_values = NoValue
    /\ greedy_action = NoValue
    /\ steps = 0
    /\ returned = [call |-> "params_from_cfg"]

\* seed(seed)
Seed(seed) ==
    /\ np_random' = SeedState(seed)
    /\ returned' = [call |-> "seed", seed |-> seed]
    /\ UNCHANGED <<n_agents, nearest_agents, nearest_targets, global_rng, x,
                   target_unobserved, target_observed, adj_mat, state_network,
                   n_targets_obs_per_agent, state_values, greedy_action, steps>>

\* reset()
Reset ==
    LET draw == ResetDraw(global_rng) IN
    /\ x' = draw.x
    /\ global_rng' = draw.state
    /\ steps' = 0
    /\ IF ComputeHelpersRaises
       THEN /\ target_unobserved' = AllUnobserved
            /\ returned' = [call |-> "reset", raised |-> "ValueError"]
            /\ UNCHANGED <<target_observed, adj_mat, state_network,
                           n_targets_obs_per_agent, state_values, greedy_action>>
       ELSE \E h \in ComputeHelpers(draw.x, AllUnobserved) :
               /\ Assign(h)
               /\ returned' = [call |-> "reset", raised |-> "no",
                               obs |-> <<h.state_values, h.state_network>>]
    /\ UNCHANGED <<n_agents, nearest_agents, nearest_targets, np_random>>

\* step(u), u one raw command pair per agent; called once reset has set self.x
Step(u) ==
    LET new_x == Array([i \in Agents |-> Integrate(x[i], u[i])]) IN
    /\ x # NoValue
    /\ steps < MaxSteps
    /\ x' = new_x
    /\ steps' = steps + 1
    /\ IF ComputeHelpersRaises
       THEN /\ returned' = [call |-> "step", raised |-> "ValueError"]
            /\ UNCHANGED <<target_unobserved, target_observed, adj_mat, state_network,
                           n_targets_obs_per_agent, state_values, greedy_action>>
       ELSE \E h \in ComputeHelpers(new_x, target_unobserved) :
               /\ Assign(h)
               /\ returned' =
                    [call |-> "step", raised |-> "no",
                     obs |-> <<h.state_values, h.state_network>>,
                     reward |-> [i \in Agents |->
                                   Reward(h.n_targets_obs_per_agent[i], x[i], new_x[i])],
                     done |-> NoneUnobserved(h.target_unobserved),
                     info |-> {}]
    /\ UNCHANGED <<n_agents, nearest_agents, nearest_targets, np_random, global_rng>>

Commands == [Agents -> CommandPairs]

Next ==
    \/ Reset
    \/ \E u \in Commands : Step(u)

Spec == Init /\ [][Next]_vars

\* The environment with seed() in use, on one configuration.
InitSeed == Init /\ n_agents = 2 /\ nearest_agents = 1 /\ nearest_targets = 1

NextSeed ==
    \/ Next
    \/ \E seed \in SeedValues : Seed(seed)

SpecSeed == InitSeed /\ [][NextSeed]_vars

----------------------------------------------------------------------------
(* Vocabulary of the properties *)

\* the last call was reset or step and it returned normally
Returned(call) == returned.call = call /\ returned.raised = "no"

\* target t is still unobserved in mask
Unobserved(mask, t) == mask[t][1] /\ mask[t][2]
UnobservedSet(mask) == {t \in DOMAIN mask : Unobserved(mask, t)}

\* squared distance from agent i at positions xs to target t
TargetDist2(xs, i, t) ==
    (xs[i][1] - target_x(t)[1]) * (xs[i][1] - target_x(t)[1])
      + (xs[i][2] - target_x(t)[2]) * (xs[i][2] - target_x(t)[2])

\* targets within the observation radius of agent i / of some agent
InRange(xs, i, t) == TargetDist2(xs, i, t) < obs_rad2
InRangeOfAny(xs, t) == \E i \in DOMAIN xs : InRange(xs, i, t)

\* slot r of the target-feature block of agent i's observation sv[i]
TargetSlot(sv, i, r) ==
    <<sv[i][2 + 4 * nearest_agents + 2 * r + 1], sv[i][2 + 4 * nearest_agents + 2 * r + 2]>>

\* the targets among cands that slot r of agent i's block points at
SlotTargets(xs, sv, i, r, cands) ==
    {t \in cands : target_x(t) = <<xs[i][1] - TargetSlot(sv, i, r)[1],
                                  xs[i][2] - TargetSlot(sv, i, r)[2]>>}

\* Agent i's block holds, in its first k slots, the relative positions to k
\* distinct targets of cands, closest first, none of the other targets of
\* cands being closer than the last one; the remaining slots are zero.
BlockShowsNearest(xs, sv, i, cands, k) ==
    /\ \A r \in 0 .. (k - 1) : SlotTargets(xs, sv, i, r, cands) # {}
    /\ \A r, q \in 0 .. (k - 1) :
          r # q => SlotTargets(xs, sv, i, r, cands) # SlotTargets(xs, sv, i, q, cands)
    /\ \A r \in 0 .. (k - 2) : \A t \in SlotTargets(xs, sv, i, r, cands) :
          \A v \in SlotTargets(xs, sv, i, r + 1, cands) :
             TargetDist2(xs, i, t) <= TargetDist2(xs, i, v)
    /\ k > 0 =>
          \A t \in cands \ UNION {SlotTargets(xs, sv, i, r, cands) : r \in 0 .. (k - 1)} :
             \A v \in SlotTargets(xs, sv, i, k - 1, cands) :
                TargetDist2(xs, i, t) >= TargetDist2(xs, i, v)
    /\ \A r \in k .. (nearest_targets - 1) : TargetSlot(sv, i, r) = <<0, 0>>

Min(a, b) == IF a < b THEN a ELSE b

----------------------------------------------------------------------------
(* Properties *)

\* C1: within an episode a step never turns a mask entry from false to true,
\* so the number of unobserved targets never grows from one step to the next.
C1_MaskMonotone ==
    [][returned'.call = "step" =>
         /\ \A t \in Targets : \A c \in 1 .. 2 :
               ~target_unobserved[t][c] => ~target_unobserved'[t][c]
         /\ Cardinality(UnobservedSet(target_unobserved'))
               <= Cardinality(UnobservedSet(target_unobserved))]_vars

\* C1 witness: a second step that observes a target while another target was
\* already observed earlier and a third is still unobserved.
C1_Witness ==
    /\ Returned("step") /\ steps = 2
    /\ \E i \in Agents : n_targets_obs_per_agent[i] > 0
    /\ \E t \in Targets : ~Unobserved(target_unobserved, t) /\ ~InRangeOfAny(x, t)
    /\ \E t \in Targets : Unobserved(target_unobserved, t)

\* C2: a step returns done = true exactly when every mask entry is false after
\* it, and once a step has returned done = true every later step of the same
\* episode returns done = true.
C2_DoneIffAllObserved ==
    /\ [](Returned("step") =>
            (returned.done <=>
               \A t \in Targets : \A c \in 1 .. 2 : ~target_unobserved[t][c]))
    /\ [][(Returned("step") /\ returned.done /\ returned'.call = "step")
            => returned'.done]_vars

\* C2 witness: the second step of an episode observes the last targets, so done
\* was false after the first step and is true now.
C2_Witness ==
    /\ Returned("step") /\ steps = 2 /\ returned.done
    /\ \E i \in Agents : n_targets_obs_per_agent[i] > 0

\* C3 (as claimed): after a reset or step that returned, with n_agents >= 2,
\* adj_mat has a zero diagonal, entry (i, j) is 1 only for an agent j among the
\* nearest_agents closest to i and for every agent j strictly inside that set,
\* and every row holds exactly min(nearest_agents, n_agents - 1) ones.
C3_AdjacencyIsNearest ==
    ((Returned("reset") \/ Returned("step")) /\ n_agents >= 2) =>
        \A i \in Agents :
           /\ adj_mat[i][i] = 0
           /\ RowSum(adj_mat[i], n_agents) = Min(nearest_agents, n_agents - 1)
           /\ \A j \in Agents \ {i} :
                 /\ adj_mat[i][j] = 1 =>
                       Cardinality({k \in Agents \ {i} : R2(x)[i][k] < R2(x)[i][j]})
                          < nearest_agents
                 /\ Cardinality({k \in Agents \ {i} : R2(x)[i][k] <= R2(x)[i][j]})
                       <= nearest_agents => adj_mat[i][j] = 1

\* C4 (as claimed): right after reset returns every mask entry is true and each
\* agent's target-feature block holds the relative positions to the
\* nearest_targets grid points closest to it.
C4_ResetLeavesAllUnobserved ==
    Returned("reset") =>
        /\ \A t \in Targets : target_unobserved[t] = <<TRUE, TRUE>>
        /\ \A i \in Agents :
              BlockShowsNearest(x, state_values, i, Targets,
                                Min(nearest_targets, n_agents * n_agents))

\* C5 (as claimed): the agent state a reset draws right after seed(value) is
\* the draw of the generator that seed(value) created, whatever the state of
\* the process-wide generator.
C5_SeedDeterminesReset ==
    [][(returned.call = "seed" /\ returned'.call = "reset")
         => x' = ResetDraw(np_random).x]_vars

\* C6 (as claimed): after a step each agent's target-feature block refers only
\* to targets whose mask entry is true after that step's mask update, and holds
\* the nearest_targets closest of them.
C6_FeaturesOnlyUnobserved ==
    Returned("step") =>
        \A i \in Agents :
           BlockShowsNearest(x, state_values, i, UnobservedSet(target_unobserved),
                             Min(nearest_targets,
                                 Cardinality(UnobservedSet(target_unobserved))))

\* C7: a pass that starts with m < nearest_targets unobserved targets leaves in
\* each agent's block the m relative positions to those targets, closest first,
\* then zeros; with m = 0 every count of n_targets_obs_per_agent is 0.  The
\* observation of an agent is 2 + 4*nearest_agents + 2*nearest_targets wide.
C7_PaddedBlock ==
    [][LET before == IF returned'.call = "reset" THEN AllUnobserved ELSE target_unobserved
           m == Cardinality(UnobservedSet(before))
       IN  (returned'.call \in {"reset", "step"} /\ returned'.raised = "no") =>
              \A i \in Agents :
                 /\ Len(state_values'[i]) = 2 + 4 * nearest_agents + 2 * nearest_targets
                 /\ m < nearest_targets =>
                       BlockShowsNearest(x', state_values', i, UnobservedSet(before), m)
                 /\ m = 0 => n_targets_obs_per_agent'[i] = 0]_vars

\* C7 witness: a step that started with two unobserved targets at different
\* distances from agent 0, with three target slots per agent.
C7_Witness ==
    /\ Returned("step") /\ nearest_targets = 3
    /\ Cardinality(DOMAIN target_observed) = 2
    /\ TargetSlot(state_values, 0, 0)[1] * TargetSlot(state_values, 0, 0)[1]
         + TargetSlot(state_values, 0, 0)[2] * TargetSlot(state_values, 0, 0)[2]
       < TargetSlot(state_values, 0, 1)[1] * TargetSlot(state_values, 0, 1)[1]
         + TargetSlot(state_values, 0, 1)[2] * TargetSlot(state_values, 0, 1)[2]

\* C8: a pass sets to false the mask entries of exactly the unobserved targets
\* whose squared distance to some agent's updated position is below obs_rad^2,
\* and leaves every other entry as it was.
C8_FlipsExactlyInRange ==
    [][LET before == IF returned'.call = "reset" THEN AllUnobserved ELSE target_unobserved
       IN  (returned'.call \in {"reset", "step"} /\ returned'.raised = "no") =>
              \A t \in Targets :
                 target_unobserved'[t] =
                    IF Unobserved(before, t) /\ InRangeOfAny(x', t)
                    THEN <<FALSE, FALSE>> ELSE before[t]]_vars

\* C8 witness: after a step one target has just been observed, one unobserved
\* target lies at distance exactly obs_rad of an agent, and a target with a
\* higher index than the observed one is still unobserved.
C8_Witness ==
    /\ Returned("step")
    /\ \E t \in Targets :
          /\ ~Unobserved(target_unobserved, t) /\ InRangeOfAny(x, t)
          /\ \E i \in Agents : n_targets_obs_per_agent[i] > 0
          /\ \E v \in Targets : v > t /\ Unobserved(target_unobserved, v)
    /\ \E t \in Targets : \E i \in Agents :
          Unobserved(target_unobserved, t) /\ TargetDist2(x, i, t) = obs_rad2

\* C9 (as claimed): with nearest_agents >= n_agents, reset and step return
\* without an error and every agent's neighbours are all the other agents.
C9_SelectionSaturates ==
    (returned.call \in {"reset", "step"} /\ nearest_agents >= n_agents) =>
        /\ returned.raised = "no"
        /\ \A i, j \in Agents : adj_mat[i][j] = IF i = j THEN 0 ELSE 1

\* C10: in every pass the targets counted for an agent are exactly the targets
\* that this pass marks observed and that lie within obs_rad of the agent, so a
\* target already observed (in reset's pass or in an earlier step) is counted
\* for no agent and enters no step reward.
C10_CountedOnceWhenObserved ==
    [][LET before == IF returned'.call = "reset" THEN AllUnobserved ELSE target_unobserved
           marked(i) == {t \in Targets : /\ Unobserved(before, t)
                                         /\ ~Unobserved(target_unobserved', t)
                                         /\ InRange(x', i, t)}
       IN  (returned'.call \in {"reset", "step"} /\ returned'.raised = "no") =>
              \A i \in Agents :
                 /\ n_targets_obs_per_agent'[i] = Cardinality(marked(i))
                 /\ returned'.call = "step" =>
                       returned'.reward[i][1] = Cardinality(marked(i))]_vars

\* C10 witness: after a step, a target observed earlier lies within obs_rad of
\* an agent that is credited with no target, while another agent is credited
\* with a target observed in this step.
C10_Witness ==
    /\ Returned("step")
    /\ \E i \in Agents :
          /\ n_targets_obs_per_agent[i] = 0
          /\ \E t \in Targets : InRange(x, i, t)
    /\ \E i \in Agents : returned.reward[i][1] > 0

====
